---- MODULE Spec2Model ----
(***************************************************************************)
(* Clustering engine of app.py: find_optimal_clusters (k search scored by  *)
(* the cosine silhouette) and perform_clustering (Lloyd-style refinement   *)
(* under cosine distance with arithmetic-mean centroids), as driven by     *)
(* main.                                                                   *)
(*                                                                         *)
(* Numbers.  Rows are integer vectors.  A centroid is kept as the pair     *)
(* (sum of the assigned rows, number of assigned rows), i.e. the exact     *)
(* rational mean; the mean of no rows (numpy: NaN) is the pair with n = 0. *)
(* Cosine comparisons are done exactly on squared quantities.  Pairwise    *)
(* row distances are exact in hundredths for the rows of Pool, whose norms *)
(* are integers.  Floating-point rounding is not modelled.                 *)
(***************************************************************************)
EXTENDS Integers, Sequences, FiniteSets, TLC

\* Largest number of rows of the feature matrix.
MaxN == 5
\* Last candidate k of the search; the program's range(2, 11) ends at 10.
KLast == 3
\* Iteration cap of the refinement loop; the program's range(100) is 100.
MaxIter == 2
\* First candidate k, range(2, 11).
KFirst == 2
\* Seeds passed to np.random.seed.
FindSeedValue == 42
\* perform_clustering seeded differently from the search
PerformSeedOther == FindSeedValue + 1
PerformSeedValue == 42

\* Rows a feature matrix is built from: the zero row, rows of different
\* magnitude and rows that are neither parallel nor orthogonal.
Pool == {<<0, 0>>, <<1, 0>>, <<0, 2>>, <<3, 4>>, <<4, 3>>}

VARIABLES
    X,                  \* feature matrix: sequence of rows
    rng,                \* state of numpy's global generator
    pc,                 \* position of main / of the running function
    k,                  \* loop variable of find_optimal_clusters
    it,                 \* iterations of the current refinement loop executed
    initial_centroids,  \* local of both functions
    new_centroids,      \* local of both functions
    labels,             \* local of find_optimal_clusters
    labels_cosine,      \* local of perform_clustering
    sil_scores,         \* local of find_optimal_clusters
    best_k,             \* result of find_optimal_clusters, 0 while unset
    cluster,            \* df_filtered['cluster'], <<>> while unset
    err,                \* exception that ended the run, "" if none
    sample,             \* history: row indices np.random.choice returned last
    ref_centroids,      \* history: centroids the last assignment was made against
    prev_labels,        \* history: assignment of the previous iteration
    converged,          \* history: the loop was left by its break
    scored              \* history: per trial, what the search scored

vars == <<X, rng, pc, k, it, initial_centroids, new_centroids, labels,
          labels_cosine, sil_scores, best_k, cluster, err, sample,
          ref_centroids, prev_labels, converged, scored>>

N == Len(X)

----------------------------------------------------------------------------
(* Vectors and centroids *)

RECURSIVE DotUpTo(_, _, _)
DotUpTo(a, b, d) == IF d = 0 THEN 0 ELSE a[d] * b[d] + DotUpTo(a, b, d - 1)

Dot(a, b) == DotUpTo(a, b, Len(a))

IsZero(a) == \A d \in 1..Len(a) : a[d] = 0

RECURSIVE SqrtBetween(_, _, _)
SqrtBetween(n, lo, hi) ==
    IF lo = hi THEN lo
    ELSE LET mid == (lo + hi + 1) \div 2
         IN IF mid * mid <= n THEN SqrtBetween(n, mid, hi)
            ELSE SqrtBetween(n, lo, mid - 1)

\* floor of the square root
ISqrt(n) == SqrtBetween(n, 0, IF n < 46340 THEN n ELSE 46340)

\* Euclidean norm of a row (an integer for the rows of Pool)
Norm(a) == ISqrt(Dot(a, a))

\* X[i] taken as a centroid
RowCentroid(x) == [s |-> x, n |-> 1]

IsNaN(c) == c.n = 0

HasNaN(cs) == \E j \in 1..Len(cs) : IsNaN(cs[j])

RECURSIVE SumRows(_, _, _, _)
SumRows(rows, lab, j, i) ==
    IF i = 0 THEN [s |-> [d \in 1..Len(rows[1]) |-> 0], n |-> 0]
    ELSE LET r == SumRows(rows, lab, j, i - 1)
         IN IF lab[i] = j
            THEN [s |-> [d \in 1..Len(rows[1]) |-> r.s[d] + rows[i][d]], n |-> r.n + 1]
            ELSE r

\* np.array([X[labels == j].mean(axis=0) for j in range(k)])
Means(rows, lab, kk) == [j \in 1..kk |-> SumRows(rows, lab, j - 1, Len(rows))]

\* one element comparison of initial_centroids == new_centroids; NaN equals nothing
SameCentroid(a, b) ==
    /\ ~IsNaN(a)
    /\ ~IsNaN(b)
    /\ \A d \in 1..Len(a.s) : a.s[d] * b.n = b.s[d] * a.n

\* np.all(initial_centroids == new_centroids), with np.any as the slip
AnyCentroidsEqual(a, b) == \E j \in 1..Len(a) : SameCentroid(a[j], b[j])

CentroidsEqual(a, b) == \A j \in 1..Len(a) : SameCentroid(a[j], b[j])

----------------------------------------------------------------------------
(* Cosine distance and assignment *)

SgnSq(v) == IF v < 0 THEN -(v * v) ELSE v * v

\* cosine_distances(x, c1) < cosine_distances(x, c2), exactly.  A zero row or
\* a zero centroid has similarity 0 (sklearn normalises a zero vector to
\* itself), hence distance 1.
Closer(x, c1, c2) ==
    LET n1 == Dot(c1.s, c1.s)
        n2 == Dot(c2.s, c2.s)
        q1 == IF IsZero(x) \/ n1 = 0 THEN 0 ELSE SgnSq(Dot(x, c1.s))
        q2 == IF IsZero(x) \/ n2 = 0 THEN 0 ELSE SgnSq(Dot(x, c2.s))
        m1 == IF n1 = 0 THEN 1 ELSE n1
        m2 == IF n2 = 0 THEN 1 ELSE n2
    IN q1 * m2 > q2 * m1

\* np.argmin with the result counted from 1, the slip an off-by-one label
ArgminOneBased(x, cs) ==
    CHOOSE j \in 1..Len(cs) :
        /\ \A j2 \in 1..Len(cs) : ~Closer(x, cs[j2], cs[j])
        /\ \A j2 \in 1..(j - 1) : Closer(x, cs[j], cs[j2])

\* np.argmax of a distance row, the slip taking the farthest centroid
Argfarthest(x, cs) ==
    (CHOOSE j \in 1..Len(cs) :
        /\ \A j2 \in 1..Len(cs) : ~Closer(x, cs[j], cs[j2])
        /\ \A j2 \in 1..(j - 1) : Closer(x, cs[j2], cs[j])) - 1

\* np.argmin over one row of distances: first index of the minimum, from 0
Argmin(x, cs) ==
    (CHOOSE j \in 1..Len(cs) :
        /\ \A j2 \in 1..Len(cs) : ~Closer(x, cs[j2], cs[j])
        /\ \A j2 \in 1..(j - 1) : Closer(x, cs[j], cs[j2])) - 1

\* labels = np.argmin(cosine_distances(X, centroids), axis=1)
Assign(rows, cs) == [i \in 1..Len(rows) |-> Argmin(rows[i], cs)]

\* one pass of the loop body
Refine(rows, cs) ==
    LET lab == Assign(rows, cs)
        new == Means(rows, lab, Len(cs))
    IN [labels |-> lab, new |-> new, same |-> CentroidsEqual(cs, new)]

----------------------------------------------------------------------------
(* The seeded generator *)

\* np.random.permutation(n) right after np.random.seed(42) (MT19937, legacy
\* shuffle), 0-based as numpy returns it.
Permutation42(n) ==
    CASE n = 1 -> <<0>>
      [] n = 2 -> <<1, 0>>
      [] n = 3 -> <<0, 1, 2>>
      [] n = 4 -> <<1, 3, 0, 2>>
      [] n = 5 -> <<1, 4, 2, 0, 3>>
      [] n = 6 -> <<0, 1, 5, 2, 4, 3>>
      [] n = 7 -> <<0, 1, 5, 2, 4, 3, 6>>

Fresh(seed) == [seed |-> seed, drawn |-> FALSE]

\* a generator that has produced output since it was seeded
Used == [seed |-> 0, drawn |-> TRUE]

\* np.random.seed left out
SeedNotApplied(g, seed) == g

\* np.random.seed(seed)
SeedGenerator(g, seed) == Fresh(seed)

\* The values np.random.choice(n, kk, replace=False) can return in generator
\* state g, as 1-based row indices: the first kk entries of permutation(n).
\* Only the stream of seed 42 is tabulated; in any other state the sample is
\* some kk distinct indices.
Samples(g, n, kk) ==
    IF g = Fresh(42)
    THEN {[j \in 1..kk |-> Permutation42(n)[j] + 1]}
    ELSE {s \in [1..kk -> 1..n] : \A a, b \in 1..kk : a # b => s[a] # s[b]}

----------------------------------------------------------------------------
(* silhouette_score(X, labels, metric='cosine') *)

\* cosine distance between rows i and j in hundredths: 0 on the diagonal,
\* 1 when either row is zero
PairDist(rows, i, j) ==
    IF i = j THEN 0
    ELSE IF IsZero(rows[i]) \/ IsZero(rows[j]) THEN 100
    ELSE 100 - (100 * Dot(rows[i], rows[j])) \div (Norm(rows[i]) * Norm(rows[j]))

RECURSIVE DistToLabel(_, _, _, _, _)
\* sum of the distances from row i to the rows labelled l, among rows 1..m
DistToLabel(rows, lab, i, l, m) ==
    IF m = 0 THEN 0
    ELSE (IF lab[m] = l THEN PairDist(rows, i, m) ELSE 0)
         + DistToLabel(rows, lab, i, l, m - 1)

LabelSet(lab) == {lab[i] : i \in 1..Len(lab)}

Count(lab, l) == Cardinality({i \in 1..Len(lab) : lab[i] = l})

\* silhouette of row i in millionths: (b - a) / max(a, b), 0 for a cluster of
\* one row and where a = b = 0
RowSilhouette(rows, lab, i) ==
    LET own == lab[i]
        cnt == Count(lab, own)
        others == LabelSet(lab) \ {own}
        A == DistToLabel(rows, lab, i, own, Len(rows))
        \* nearest other cluster: least mean distance B/m
        nb == CHOOSE l \in others : \A l2 \in others :
                  DistToLabel(rows, lab, i, l, Len(rows)) * Count(lab, l2)
                      <= DistToLabel(rows, lab, i, l2, Len(rows)) * Count(lab, l)
        B == DistToLabel(rows, lab, i, nb, Len(rows))
        m == Count(lab, nb)
        an == A * m
        bn == B * (cnt - 1)
        mx == IF an > bn THEN an ELSE bn
    IN IF cnt = 1 \/ mx = 0 THEN 0
       ELSE ((bn - an) * 100000) \div mx

RECURSIVE SumSilhouette(_, _, _)
SumSilhouette(rows, lab, i) ==
    IF i = 0 THEN 0
    ELSE RowSilhouette(rows, lab, i) + SumSilhouette(rows, lab, i - 1)

\* mean of the per-row values
Silhouette(rows, lab) == SumSilhouette(rows, lab, Len(rows)) \div Len(rows)

\* check_number_of_labels: 2 <= n_labels <= n_samples - 1
LabelCountValid(rows, lab) ==
    /\ Cardinality(LabelSet(lab)) >= 2
    /\ Cardinality(LabelSet(lab)) <= Len(rows) - 1

----------------------------------------------------------------------------
(* Selection *)

\* K = range(2, 11)
K == [i \in 1..(KLast - KFirst + 1) |-> KFirst + i - 1]

\* last index of the maximum, the slip of scanning with >=
ArgMaxLast(s) ==
    CHOOSE i \in 1..Len(s) :
        /\ \A j \in 1..Len(s) : s[j] <= s[i]
        /\ \A j \in (i + 1)..Len(s) : s[j] < s[i]

\* np.argmax: first index of the maximum (1-based here)
ArgMax(s) ==
    CHOOSE i \in 1..Len(s) :
        /\ \A j \in 1..Len(s) : s[j] <= s[i]
        /\ \A j \in 1..(i - 1) : s[j] < s[i]

----------------------------------------------------------------------------
(* State *)

Matrices(lo) == UNION {[1..n -> Pool] : n \in lo..MaxN}

Locals ==
    /\ k = 0
    /\ it = 0
    /\ initial_centroids = <<>>
    /\ new_centroids = <<>>
    /\ labels = <<>>
    /\ labels_cosine = <<>>
    /\ sil_scores = <<>>
    /\ cluster = <<>>
    /\ err = ""
    /\ sample = <<>>
    /\ ref_centroids = <<>>
    /\ prev_labels = <<>>
    /\ converged = FALSE
    /\ scored = <<>>

\* main is entered with the filtered articles vectorised; the generator has
\* not been seeded by the program yet
Init ==
    /\ X \in Matrices(0)
    /\ rng = Used
    /\ pc = "main"
    /\ best_k = 0
    /\ Locals

\* an exception leaves the function and, uncaught, main
Raise(e) ==
    /\ pc' = "raised"
    /\ err' = e

----------------------------------------------------------------------------
(* main and find_optimal_clusters *)

MainStart ==
    /\ pc = "main"
    /\ IF N = 0
       THEN /\ pc' = "no_articles"
            /\ UNCHANGED <<k, sil_scores>>
       ELSE /\ pc' = "find_seed"
            /\ k' = KFirst
            /\ sil_scores' = <<>>
    /\ UNCHANGED <<X, rng, it, initial_centroids, new_centroids, labels,
                   labels_cosine, best_k, cluster, err, sample, ref_centroids,
                   prev_labels, converged, scored>>

FindSeed ==
    /\ pc = "find_seed"
    /\ rng' = SeedGenerator(rng, FindSeedValue)
    /\ pc' = "find_choice"
    /\ UNCHANGED <<X, k, it, initial_centroids, new_centroids, labels,
                   labels_cosine, sil_scores, best_k, cluster, err, sample,
                   ref_centroids, prev_labels, converged, scored>>

\* X[np.random.choice(X.shape[0], k, replace=False)]; choice raises
\* ValueError when k exceeds the number of rows
FindChoice ==
    /\ pc = "find_choice"
    /\ IF k > N
       THEN /\ Raise("ValueError: sample larger than population")
            /\ UNCHANGED <<rng, it, initial_centroids, sample, prev_labels,
                           converged>>
       ELSE \E s \in Samples(rng, N, k) :
                /\ sample' = s
                /\ initial_centroids' = [j \in 1..k |-> RowCentroid(X[s[j]])]
                /\ rng' = Used
                /\ it' = 0
                /\ prev_labels' = <<>>
                /\ converged' = FALSE
                /\ pc' = "find_loop"
                /\ err' = err
    /\ UNCHANGED <<X, k, new_centroids, labels, labels_cosine, sil_scores,
                   best_k, cluster, ref_centroids, scored>>

\* One pass of the loop body.  cosine_distances validates its arguments and
\* raises ValueError on a NaN centroid left by the previous pass.
FindIterate ==
    /\ pc = "find_loop"
    /\ IF HasNaN(initial_centroids)
       THEN /\ Raise("ValueError: input contains NaN")
            /\ UNCHANGED <<it, initial_centroids, new_centroids, labels,
                           ref_centroids, prev_labels, converged>>
       ELSE \E r \in {Refine(X, initial_centroids)} :
               /\ labels' = r.labels
               /\ new_centroids' = r.new
               /\ ref_centroids' = initial_centroids
               /\ prev_labels' = IF it = 0 THEN <<>> ELSE labels
               /\ it' = it + 1
               /\ converged' = r.same
               /\ initial_centroids' = IF r.same THEN initial_centroids ELSE r.new
               /\ pc' = IF r.same \/ it + 1 = MaxIter THEN "find_score" ELSE "find_loop"
               /\ err' = err
    /\ UNCHANGED <<X, rng, k, labels_cosine, sil_scores, best_k, cluster,
                   sample, scored>>

\* silhouette_score raises ValueError unless 2 <= n_labels <= n_samples - 1
FindScore ==
    /\ pc = "find_score"
    /\ IF ~LabelCountValid(X, labels)
       THEN /\ Raise("ValueError: number of labels")
            /\ UNCHANGED <<k, sil_scores, scored>>
       ELSE /\ sil_scores' = Append(sil_scores, Silhouette(X, labels))
            /\ scored' = Append(scored, [labels |-> labels, sample |-> sample,
                                          iters |-> it])
            /\ IF k = KLast
               THEN pc' = "find_best" /\ k' = k
               ELSE pc' = "find_seed" /\ k' = k + 1
            /\ err' = err
    /\ UNCHANGED <<X, rng, it, initial_centroids, new_centroids, labels,
                   labels_cosine, best_k, cluster, sample, ref_centroids,
                   prev_labels, converged>>

FindBest ==
    /\ pc = "find_best"
    /\ best_k' = K[ArgMax(sil_scores)]
    /\ pc' = "perform_seed"
    /\ UNCHANGED <<X, rng, k, it, initial_centroids, new_centroids, labels,
                   labels_cosine, sil_scores, cluster, err, sample,
                   ref_centroids, prev_labels, converged, scored>>

----------------------------------------------------------------------------
(* perform_clustering *)

PerformSeed ==
    /\ pc = "perform_seed"
    /\ rng' = SeedGenerator(rng, PerformSeedValue)
    /\ pc' = "perform_choice"
    /\ UNCHANGED <<X, k, it, initial_centroids, new_centroids, labels,
                   labels_cosine, sil_scores, best_k, cluster, err, sample,
                   ref_centroids, prev_labels, converged, scored>>

PerformChoice ==
    /\ pc = "perform_choice"
    /\ IF best_k > N
       THEN /\ Raise("ValueError: sample larger than population")
            /\ UNCHANGED <<rng, it, initial_centroids, sample, prev_labels,
                           converged>>
       ELSE \E s \in Samples(rng, N, best_k) :
                /\ sample' = s
                /\ initial_centroids' = [j \in 1..best_k |-> RowCentroid(X[s[j]])]
                /\ rng' = Used
                /\ it' = 0
                /\ prev_labels' = <<>>
                /\ converged' = FALSE
                /\ pc' = "perform_loop"
                /\ err' = err
    /\ UNCHANGED <<X, k, new_centroids, labels, labels_cosine, sil_scores,
                   best_k, cluster, ref_centroids, scored>>

\* the same pass as FindIterate, on labels_cosine
PerformIterate ==
    /\ pc = "perform_loop"
    /\ IF HasNaN(initial_centroids)
       THEN /\ Raise("ValueError: input contains NaN")
            /\ UNCHANGED <<it, initial_centroids, new_centroids, labels_cosine,
                           ref_centroids, prev_labels, converged>>
       ELSE \E r \in {Refine(X, initial_centroids)} :
               /\ labels_cosine' = r.labels
               /\ new_centroids' = r.new
               /\ ref_centroids' = initial_centroids
               /\ prev_labels' = IF it = 0 THEN <<>> ELSE labels_cosine
               /\ it' = it + 1
               /\ converged' = r.same
               /\ initial_centroids' = IF r.same THEN initial_centroids ELSE r.new
               /\ pc' = IF r.same \/ it + 1 = MaxIter THEN "perform_return"
                        ELSE "perform_loop"
               /\ err' = err
    /\ UNCHANGED <<X, rng, k, labels, sil_scores, best_k, cluster, sample,
                   scored>>

\* return labels_cosine; df_filtered['cluster'] = labels
PerformReturn ==
    /\ pc = "perform_return"
    /\ cluster' = labels_cosine
    /\ pc' = "done"
    /\ UNCHANGED <<X, rng, k, it, initial_centroids, new_centroids, labels,
                   labels_cosine, sil_scores, best_k, err, sample,
                   ref_centroids, prev_labels, converged, scored>>

----------------------------------------------------------------------------
(* Specifications *)

Next ==
    \/ MainStart
    \/ FindSeed
    \/ FindChoice
    \/ FindIterate
    \/ FindScore
    \/ FindBest
    \/ PerformSeed
    \/ PerformChoice
    \/ PerformIterate
    \/ PerformReturn

\* the application: main on a matrix of up to MaxN rows
Spec == Init /\ [][Next]_vars

\* perform_clustering called on its own with any matrix and any cluster
\* count of the search range
InitPartition ==
    /\ X \in Matrices(1)
    /\ rng = Used
    /\ pc = "perform_seed"
    /\ best_k \in KFirst..KLast
    /\ Locals

NextPartition ==
    \/ PerformSeed
    \/ PerformChoice
    \/ PerformIterate
    \/ PerformReturn

SpecPartition == InitPartition /\ [][NextPartition]_vars

----------------------------------------------------------------------------
(* perform_clustering as a function of the matrix and the cluster count *)

RECURSIVE RefineLoop(_, _, _)
\* the loop of lines 76-82 from centroids cs, done iterations already made
RefineLoop(rows, cs, done) ==
    IF HasNaN(cs) THEN [raised |-> TRUE, labels |-> <<>>, iters |-> done]
    ELSE LET r == Refine(rows, cs)
         IN IF r.same \/ done + 1 = MaxIter
            THEN [raised |-> FALSE, labels |-> r.labels, iters |-> done + 1]
            ELSE RefineLoop(rows, r.new, done + 1)

\* perform_clustering(rows, kk) started from the seed-42 sample
Partition(rows, kk) ==
    RefineLoop(rows,
               [j \in 1..kk |-> RowCentroid(rows[Permutation42(Len(rows))[j] + 1])],
               0)

----------------------------------------------------------------------------
(* Selection: C1, C2, C3 *)

Score(kk) == sil_scores[kk - KFirst + 1]

\* C1: when the search completes, best_k lies in the candidate range, its
\* silhouette score is at least the score of every candidate tried, and no
\* smaller candidate reaches that score.
C1_SelectsFirstMaximum ==
    best_k # 0 =>
        /\ best_k \in KFirst..KLast
        /\ Len(sil_scores) = KLast - KFirst + 1
        /\ \A kk \in KFirst..KLast : Score(kk) <= Score(best_k)
        /\ \A kk \in KFirst..(best_k - 1) : Score(kk) < Score(best_k)

\* the search completed and a larger candidate ties with the selected one
C1_Witness ==
    /\ pc = "done"
    /\ \E kk \in (best_k + 1)..KLast : Score(kk) = Score(best_k)

Trial(kk) == scored[kk - KFirst + 1]

\* C2: the labeling main stores is the one the search produced and scored
\* for best_k: same initial sample, same number of iterations, same labels.
C2_FinalIsScoredPartition ==
    pc = "done" =>
        /\ cluster = Trial(best_k).labels
        /\ sample = Trial(best_k).sample
        /\ it = Trial(best_k).iters

\* main finished with the last candidate selected after a multi-pass run
C2_Witness ==
    /\ pc = "done"
    /\ best_k = KLast
    /\ it > 1

\* C3: every run of the partitioning procedure, a trial of the search or
\* perform_clustering, returns the labeling that is a function of the matrix
\* and the cluster count alone, whatever the generator did before.
C3_Deterministic ==
    /\ pc = "find_score" => labels = Partition(X, k).labels
    /\ pc = "perform_return" => labels_cosine = Partition(X, best_k).labels

\* perform_clustering returns for the first candidate after later trials
\* have drawn from the generator in between
C3_Witness ==
    /\ pc = "perform_return"
    /\ best_k = KFirst
    /\ Len(scored) > 1
    /\ labels_cosine = Trial(KFirst).labels

----------------------------------------------------------------------------
(* Cosine distance as a number, for the sum of squared distances *)

\* Bounds, in thousandths, on the cosine distance from row x to centroid c:
\* the norm of the rational mean is a square root, enclosed between
\* consecutive integers after scaling by 1000.  The rows of Pool are
\* non-negative, so the dot product is.
DistBounds(x, c) ==
    IF IsZero(x) \/ IsZero(c.s) THEN [lo |-> 1000, hi |-> 1000]
    ELSE LET r == ISqrt(Dot(c.s, c.s) * 1000000)
             num == 1000000 * Dot(x, c.s)
             coslo == num \div (Norm(x) * (r + 1))
             coshi == (num \div (Norm(x) * r)) + 1
         IN [lo |-> IF coshi >= 1000 THEN 0 ELSE 1000 - coshi,
             hi |-> 1000 - coslo]

RECURSIVE CostLo(_, _, _, _)
\* lower bound of the sum of squared distances of rows 1..i to their centroids
CostLo(rows, cs, lab, i) ==
    IF i = 0 THEN 0
    ELSE LET d == DistBounds(rows[i], cs[lab[i] + 1]).lo
         IN d * d + CostLo(rows, cs, lab, i - 1)

RECURSIVE CostHi(_, _, _, _)
\* upper bound of the same sum
CostHi(rows, cs, lab, i) ==
    IF i = 0 THEN 0
    ELSE LET d == DistBounds(rows[i], cs[lab[i] + 1]).hi
         IN d * d + CostHi(rows, cs, lab, i - 1)

----------------------------------------------------------------------------
(* The partitioning procedure on its own: C4, C5, C8, C9, C10 *)

Returned == pc \in {"perform_return", "done"}

\* C4: the labeling has one entry per row and every entry is an integer in
\* [0, k), after every pass of the loop and so whenever the procedure
\* returns; what main stores is that labeling.
C4_LabelsInRange ==
    /\ (it >= 1 \/ Returned) =>
           /\ Len(labels_cosine) = N
           /\ \A i \in 1..N : labels_cosine[i] \in 0..(best_k - 1)
    /\ pc = "done" => cluster = labels_cosine

\* a labeling was returned for three clusters, all of them in use
C4_Witness ==
    /\ pc = "done"
    /\ best_k = KFirst + 1
    /\ LabelSet(cluster) = 0..(best_k - 1)

\* C5: no centroid ever becomes non-numeric.
C5_NoNaNCentroid ==
    /\ ~HasNaN(initial_centroids)
    /\ ~HasNaN(new_centroids)

HasZeroRow == \E i \in 1..N : IsZero(X[i])

ValidInput ==
    /\ best_k > 1
    /\ best_k <= N
    /\ ~HasZeroRow

\* C8: for a valid input the loop ends within MaxIter iterations, by
\* convergence or on the cap, and a labeling is returned in both cases.
C8_ValidInputReturns ==
    ValidInput =>
        /\ it <= MaxIter
        /\ pc # "raised"
        /\ Returned => (converged \/ it = MaxIter)

\* the sum of squared distances of the last assignment, as bounds
SumSqLo == CostLo(X, ref_centroids, labels_cosine, N)

SumSqHi == CostHi(X, ref_centroids, labels_cosine, N)

\* a second or later pass of the loop body is made
LaterPass ==
    /\ pc = "perform_loop"
    /\ it >= 1
    /\ ~HasNaN(initial_centroids)

\* C9: from one iteration to the next the sum of squared cosine distances
\* from each row to its assigned centroid does not increase.
C9_SumSqNonIncreasing == [][LaterPass => SumSqLo' <= SumSqHi]_vars

\* C9 as amended: the assignment step never moves a row to a centroid
\* farther than the recomputed centroid of the cluster the row was in.
C9_AssignmentNotFarther ==
    [][LaterPass =>
          \A i \in 1..N :
              ~Closer(X[i], initial_centroids[labels_cosine[i] + 1],
                            initial_centroids[labels_cosine'[i] + 1])]_vars

\* a second pass has been made and moved a row to another cluster
C9_Witness ==
    /\ pc \in {"perform_loop", "perform_return"}
    /\ it >= 2
    /\ \E i \in 1..N : prev_labels[i] # labels_cosine[i]

\* C10: a loop left by the convergence test returns a fixed point: every
\* row carries the lowest-indexed cluster among those at least cosine
\* distance under the centroids held at exit, and each of these centroids is
\* the mean of the rows carrying its label.  A loop left on the cap returns
\* the labels assigned against the centroids held at the start of the last
\* iteration, while the held centroids are the recomputed ones.
C10_ConvergedIsFixedPoint ==
    pc = "perform_return" =>
        IF converged
        THEN /\ \A i \in 1..N :
                   LET l == labels_cosine[i] + 1
                   IN /\ \A j \in 1..best_k :
                            ~Closer(X[i], initial_centroids[j], initial_centroids[l])
                      /\ \A j \in 1..(l - 1) :
                            Closer(X[i], initial_centroids[l], initial_centroids[j])
             /\ \A j \in 1..best_k :
                   SameCentroid(initial_centroids[j],
                                SumRows(X, labels_cosine, j - 1, N))
        ELSE /\ it = MaxIter
             /\ labels_cosine = Assign(X, ref_centroids)
             /\ initial_centroids = new_centroids
             /\ initial_centroids = Means(X, labels_cosine, best_k)

\* the loop converged on its second pass, its centroids being means of
\* several rows and not the sampled rows
C10_Witness ==
    /\ pc = "perform_return"
    /\ converged
    /\ it = 2
    /\ \E j \in 1..best_k : initial_centroids[j].n > 1

\* the loop was left on the cap with every centroid numeric
CapReached ==
    /\ pc = "perform_return"
    /\ ~converged
    /\ ~HasNaN(initial_centroids)

----------------------------------------------------------------------------
(* Input validation: C6, C7 *)

\* nothing has been sampled, computed, scored or returned
NoWorkDone ==
    /\ pc \in {"main", "find_seed", "find_choice", "raised"}
    /\ sample = <<>>
    /\ initial_centroids = <<>>
    /\ labels = <<>>
    /\ sil_scores = <<>>
    /\ best_k = 0
    /\ cluster = <<>>

\* C6: a matrix with no more rows than the last candidate k is rejected
\* before any work is done, and nothing is returned for it.
C6_RangeRejectedFirst == (N >= 1 /\ N <= KLast) => NoWorkDone

\* C7: a matrix with an all-zero row is rejected before any centroid is
\* sampled or computed.
C7_ZeroRowRejectedFirst == HasZeroRow => NoWorkDone

\* a matrix with an all-zero row is clustered to the end
ZeroRowClustered == HasZeroRow /\ pc = "done"

====
